---- MODULE Spec2Model ----
(***************************************************************************)
(* Model of ticker.py: the poll driver GUI.update_prices, the per-symbol   *)
(* cycle Ticker.update with its rate-limit decorators, the quote and       *)
(* candle requests, and the JSON cache file of every symbol.               *)
(*                                                                         *)
(* The program is single threaded: one control location (pc) walks through *)
(* the code.  Time is counted in seconds.  The outcome of every request,   *)
(* of every file operation and the latency of every request are inputs.    *)
(***************************************************************************)
EXTENDS Integers, Sequences, FiniteSets, TLC

\* ------------------------------------------------------------------ bounds
NumTickers == 2     \* how many of the tracked symbols are modelled
MaxPasses  == 2     \* passes of update_prices that are dispatched
MaxPrice   == 1     \* prices a price response can carry: 1..MaxPrice
MaxChange  == 1     \* values a 24h response can carry: 1..MaxChange
MaxTime    == 40    \* no request starts to wait after this time
CallWeight == 600   \* calls that one modelled call counts for in a ledger,
                    \* so that CALLS is reached by CALLS \div CallWeight calls
MaxCut     == 1     \* fields an interrupted write can leave: 0..MaxCut

\* ------------------------------------------------------- program constants
CALLS      == 1200  \* calls per period
RATE_LIMIT == 60    \* period, seconds
TIMEOUT    == 10    \* timeout of one request, seconds
AFTER_MS   == 10000 \* delay handed to self.after, milliseconds

AfterDelay == AFTER_MS \div 1000

\* the descriptors, by position; APIs[1] is the python APIs[0]
APIs == << [name |-> "Binance"] >>

\* GUI.tickers (BTC, ETH, SOL, XRP), by position: the first NumTickers
Tickers == 1 .. NumTickers

\* ------------------------------------------------------------ the variables
VARIABLES
    now,        \* the clock, seconds
    pc,         \* control location of the one thread
    idx,        \* position of the for loop of update_prices in tickers
    passes,     \* passes dispatched so far
    timerDue,   \* <<t>>: the after-callback is due at t;  <<>>: none pending
    limiter,    \* ledger of each decorated function: last_reset, num_calls
    remaining,  \* period_remaining carried by the RateLimitException
    quote,      \* per ticker: price, price_change, change_24h, last_update, current_api
    candlestick_image,  \* per ticker: <<>> (None) or <<id>>
    disk,       \* per ticker: content of <symbol>_cache.json
    largeScreen,\* screen is at least 1920x1080
    cycle,      \* history of the update() call being run or last run
    ran,        \* tickers whose update() was called in the current pass
    callLog,    \* times at which update() calls passed the limiter (last period)
    saved,      \* per ticker: <<q>> when the file is the finished save of Quote q
    stamped,    \* per ticker: <<q>>, the Quote as line 78 last completed it
    error,      \* exception that left update_prices, "" if none
    data,       \* the bars handed to plot_candlestick_chart
    plotted,    \* the labels drawn by each plot of data so far
    started     \* <<t>>: the pass running or last run was dispatched at t

vars == << now, pc, idx, passes, timerDue, limiter, remaining, quote,
           candlestick_image, disk, largeScreen, cycle, ran, callLog,
           saved, stamped, error, data, plotted,
           started >>

\* -------------------------------------------------------------- JSON, files
Keys == << "price", "price_change", "change_24h", "last_update", "api" >>

Num(n)  == [t |-> "num", n |-> n, s |-> ""]
Str(s)  == [t |-> "str", n |-> 0, s |-> s]

\* a clock-time text (strftime('%H:%M:%S')) written instead of the ISO text
IsoFormatM(d) == [t |-> "str", n |-> d, s |-> "hms"]

\* datetime.isoformat(): the text of the instant d
IsoFormat(d) == [t |-> "str", n |-> d, s |-> "iso"]

\* load_from_cache taking the time of the load as the timestamp
FromIsoFormatM(tok) == now

\* datetime.fromisoformat accepts exactly the texts isoformat produces
IsIsoText(tok) == tok.t = "str" /\ tok.s = "iso"
FromIsoFormat(tok) == tok.n

\* a file: absent, or a text: the first fields of an object, closed or not
EmptyObj == [key \in {} |-> Num(0)]
NoFile == [exists |-> FALSE, closed |-> FALSE, obj |-> EmptyObj]
TextOf(fields, closed) == [exists |-> TRUE, closed |-> closed, obj |-> fields]

\* lines 161-167: the dict that save_to_cache dumps
CacheData(q) ==
    [price        |-> Num(q.price),
     price_change |-> Num(q.price_change),
     change_24h   |-> Num(q.change_24h),
     last_update  |-> IsoFormat(q.last_update[1]),
     api          |-> Str(q.current_api.name)]

\* the first k keys of the dict, in the order json.dump writes them
Prefix(d, k) == [key \in { Keys[i] : i \in 1 .. k } |-> d[key]]

\* json.dump to the end: the whole object, closed
JsonDump(d) == TextOf(Prefix(d, Len(Keys)), TRUE)

\* json.dump stopped after k fields: the text is not closed
JsonDumpCut(d, k) == TextOf(Prefix(d, k), FALSE)

\* json.load raises JSONDecodeError on a text that is not a closed object
Decodable(f) == f.exists /\ f.closed

\* -------------------------------------------------------------- the Quote
\* Ticker.__init__, lines 51-56
InitQuote ==
    [price |-> 0, price_change |-> 0, change_24h |-> 0,
     last_update |-> << >>, current_api |-> APIs[1]]

\* a lookup that takes every descriptor for a match
ApiMatchesM(name) == 1 .. Len(APIs)

\* line 179: next(api for api in APIs if api.name == name)
ApiMatches(name) == { i \in 1 .. Len(APIs) : APIs[i].name = name }
ApiByName(name) ==
    APIs[CHOOSE i \in ApiMatches(name) : \A j \in ApiMatches(name) : i <= j]

\* line 176 reading a key that save_to_cache never writes
CachedPriceChangeM(d) == 0

\* line 176: cache_data.get('price_change', 0)
CachedPriceChange(d) ==
    IF "price_change" \in DOMAIN d THEN d["price_change"].n ELSE 0

\* load_from_cache, lines 171-184: the Quote it leaves and how it ends.
\* The assignments of lines 175-179 happen one by one; an exception that is
\* neither FileNotFoundError nor JSONDecodeError leaves the method.
LoadFromCache(q, f) ==
    IF ~ f.exists THEN [q |-> q, out |-> "absent"]
    ELSE IF ~ Decodable(f) THEN [q |-> q, out |-> "corrupt"]
    ELSE
      LET d  == f.obj
          has(k) == k \in DOMAIN d
          q1 == [q  EXCEPT !.price = d["price"].n]
          q2 == [q1 EXCEPT !.price_change = CachedPriceChange(d)]
          q3 == [q2 EXCEPT !.change_24h = d["change_24h"].n]
          q4 == [q3 EXCEPT !.last_update = << FromIsoFormat(d["last_update"]) >>]
          q5 == [q4 EXCEPT !.current_api = ApiByName(d["api"].s)]
      IN  IF ~ has("price") THEN [q |-> q, out |-> "KeyError"]
          ELSE IF ~ has("change_24h") THEN [q |-> q2, out |-> "KeyError"]
          ELSE IF ~ has("last_update") THEN [q |-> q3, out |-> "KeyError"]
          ELSE IF ~ IsIsoText(d["last_update"]) THEN [q |-> q3, out |-> "ValueError"]
          ELSE IF ~ has("api") THEN [q |-> q4, out |-> "KeyError"]
          ELSE IF ApiMatches(d["api"].s) = {} THEN [q |-> q4, out |-> "StopIteration"]
          ELSE [q |-> q5, out |-> "adopted"]

Raises(out) == out \in {"KeyError", "ValueError", "StopIteration"}

\* ------------------------------------------- files found when the run starts
\* a record left by an earlier run
OldQuote ==
    [price |-> MaxPrice + 1, price_change |-> MaxChange + 1,
     change_24h |-> MaxChange + 1,
     last_update |-> << 0 - AfterDelay >>, current_api |-> APIs[1]]
OldData == CacheData(OldQuote)

Without(d, k) == [key \in (DOMAIN d) \ {k} |-> d[key]]

InitFiles ==
    { NoFile,
      JsonDump(OldData),
      JsonDumpCut(OldData, 0) }
    \cup { TextOf(Without(OldData, Keys[i]), TRUE) : i \in 1 .. Len(Keys) }
    \cup { TextOf([OldData EXCEPT !["last_update"] = Str("yesterday")], TRUE),
           TextOf([OldData EXCEPT !["api"] = Str("Kraken")], TRUE) }

\* ------------------------------------------------------- the rate limiter
\* limits(calls=CALLS, period=RATE_LIMIT): one ledger per decorated function,
\* made when the class body runs, so all Ticker objects share the ledger of
\* update.  The wrapper computes the rest of the period, starts a new period
\* when none is left, counts the call and raises RateLimitException when the
\* count is over CALLS.
Ledgers == {"update", "update_prices"}

PeriodRemaining(l, t) == RATE_LIMIT - (t - l.last_reset)

Limits(l, t) ==
    LET l1 == IF PeriodRemaining(l, t) <= 0
              THEN [last_reset |-> t, num_calls |-> 0]
              ELSE l
    IN  [l1 EXCEPT !.num_calls = @ + CallWeight]

\* the limit test off by one call
AdmittedM(l) == l.num_calls <= CALLS + CallWeight

Admitted(l) == l.num_calls <= CALLS

\* a rejected update() call is dropped instead of being retried
AfterLimitsM(f, admitted) ==
    IF f = "update_prices" THEN (IF admitted THEN "loop" ELSE "prices_sleep")
    ELSE (IF admitted THEN "price_request" ELSE "display")

\* where the call goes from the wrapper: into the decorated function when
\* it was admitted, into the except clause of sleep_and_retry when not
AfterLimits(f, admitted) ==
    IF admitted
    THEN (IF f = "update_prices" THEN "loop" ELSE "price_request")
    ELSE (IF f = "update_prices" THEN "prices_sleep" ELSE "update_sleep")

\* sleep_and_retry: time.sleep(exception.period_remaining), then call again
SleepAndRetry(t, rem) == t + rem

\* calls of the log that are less than a period old at time t
Recent(log, t) == SelectSeq(log, LAMBDA c : c > t - RATE_LIMIT)

\* ------------------------------------------------------------------- Init
NewCycle(q, img, f) ==
    [pre |-> q, preImage |-> img, preDisk |-> f, fetched |-> << >>,
     price |-> "none", change |-> "none", save |-> "none",
     candle |-> "none", load |-> "none", beforeLoad |-> q,
     slept |-> FALSE, runs |-> 0,
     steps |-> << >>]

Init ==
    /\ now = 0
    /\ pc = "start"
    /\ idx = 1
    /\ passes = 0
    /\ timerDue = << >>
    /\ limiter = [l \in Ledgers |-> [last_reset |-> 0, num_calls |-> 0]]
    /\ remaining = 0
    /\ quote = [i \in Tickers |-> InitQuote]
    /\ candlestick_image = [i \in Tickers |-> << >>]
    /\ disk \in [Tickers -> InitFiles]
    /\ largeScreen \in BOOLEAN
    /\ cycle = NewCycle(InitQuote, << >>, NoFile)
    /\ ran = {}
    /\ callLog = << >>
    /\ saved = [i \in Tickers |-> << >>]
    /\ stamped = [i \in Tickers |-> << >>]
    /\ error = ""
    /\ data = << >>
    /\ plotted = << >>
    /\ started = << >>

Latencies == {0, TIMEOUT}

Step(name) == [cycle EXCEPT !.steps = Append(@, name)]

\* an exception leaves update_prices: out of GUI() in the first pass (line
\* 315), out of the Tk callback in a later pass; no after() was reached
Dead == IF passes = 1 THEN "crashed" ELSE "stalled"

\* ------------------------------------------------------------- the driver
\* line 315 (first pass) or the after-callback coming due (later passes)
Dispatch ==
    /\ \/ pc = "start"
       \/ pc = "idle" /\ timerDue # << >> /\ passes < MaxPasses
    /\ now' = IF pc = "idle" /\ timerDue[1] > now THEN timerDue[1] ELSE now
    /\ pc' = "prices_limits"
    /\ passes' = passes + 1
    /\ timerDue' = << >>
    /\ ran' = {}
    /\ idx' = 1
    /\ started' = << now' >>
    /\ UNCHANGED << limiter, remaining, quote, candlestick_image, disk,
                    largeScreen, data, plotted, cycle, callLog, saved, error,
                    stamped >>

\* lines 330-331 and 61-62: the limits wrapper of update_prices or of update
LimitsWrapper ==
    /\ pc \in {"prices_limits", "update_limits"}
    /\ LET f == IF pc = "prices_limits" THEN "update_prices" ELSE "update"
           l == Limits(limiter[f], now)
       IN  /\ limiter' = [limiter EXCEPT ![f] = l]
           /\ pc' = AfterLimits(f, Admitted(l))
           /\ IF Admitted(l)
              THEN /\ remaining' = 0
                   /\ callLog' = IF f = "update"
                                 THEN Append(Recent(callLog, now), now)
                                 ELSE callLog
                   /\ cycle' = IF f = "update"
                               THEN [Step("admitted") EXCEPT !.runs = @ + 1]
                               ELSE cycle
              ELSE /\ remaining' = PeriodRemaining(limiter[f], now)
                   /\ UNCHANGED << callLog, cycle >>
    /\ UNCHANGED << now, idx, passes, timerDue, quote, candlestick_image,
                    disk, largeScreen, data, plotted,
                    started, ran, saved, error,
                    stamped >>

\* lines 330 and 61: sleep_and_retry catches RateLimitException and sleeps
Sleep ==
    /\ pc \in {"prices_sleep", "update_sleep"}
    /\ now' = SleepAndRetry(now, remaining)
    /\ pc' = IF pc = "prices_sleep" THEN "prices_limits" ELSE "update_limits"
    /\ cycle' = IF pc = "update_sleep" THEN [cycle EXCEPT !.slept = TRUE] ELSE cycle
    /\ UNCHANGED << idx, passes, timerDue, limiter, remaining, quote,
                    candlestick_image, disk, largeScreen, data, plotted,
                    started, ran, callLog, saved, error,
                    stamped >>

\* lines 333-335: the next ticker of the loop, its update() is called
CallUpdate ==
    /\ pc = "loop"
    /\ idx <= NumTickers
    /\ pc' = "update_limits"
    /\ ran' = ran \cup {idx}
    /\ cycle' = NewCycle(quote[idx], candlestick_image[idx], disk[idx])
    /\ UNCHANGED << now, idx, passes, timerDue, limiter, remaining, quote,
                    candlestick_image, disk, largeScreen, data, plotted,
                    started, callLog, saved, error,
                    stamped >>

\* a timer counted from the dispatch of the running pass
AfterM(t, ms) == << started[1] + ms \div 1000 >>

\* self.after(ms, callback) called at time t: when the callback is due
After(t, ms) == << t + ms \div 1000 >>

\* line 338: the loop is over, the next pass is scheduled
ScheduleNext ==
    /\ pc = "loop"
    /\ idx > NumTickers
    /\ timerDue' = After(now, AFTER_MS)
    /\ pc' = "idle"
    /\ UNCHANGED << now, idx, passes, limiter, remaining, quote,
                    candlestick_image, disk, largeScreen, data, plotted,
                    started, cycle, ran,
                    callLog, saved, error,
                    stamped >>

\* ------------------------------------------------------ Ticker.update body
\* handlers that go on to the candle step instead of the fallback
HandlerM == "fetch_candlestick_data"

\* where control goes when an exception reaches the handlers of lines 82-87:
\* both handlers call load_from_cache
Handler == "load_from_cache"

\* lines 65-69: the price request; it answers the price p, or fails
\* (network error, timeout, bad status, missing or malformed field) after
\* no time or after the timeout
PriceRequest ==
    /\ pc = "price_request"
    /\ \E d \in Latencies, ok \in BOOLEAN, p \in 1 .. MaxPrice :
         /\ now + d <= MaxTime \/ d = 0
         /\ now' = now + d
         /\ IF ok
            THEN /\ quote' = [quote EXCEPT ![idx].price = p]
                 /\ pc' = "change_request"
                 /\ cycle' = [Step("price") EXCEPT !.price = "ok"]
            ELSE /\ p = 1
                 /\ quote' = quote
                 /\ pc' = Handler
                 /\ cycle' = [Step("price") EXCEPT !.price = "fail"]
    /\ UNCHANGED << idx, passes, timerDue, limiter, remaining,
                    candlestick_image, disk, largeScreen, data, plotted,
                    started, ran, callLog, saved, error,
                    stamped >>

\* lines 71-76: the 24h request.  "fail": nothing was assigned;
\* "half": priceChangePercent was read (line 75) and priceChange was not
ChangeRequest ==
    /\ pc = "change_request"
    /\ \E d \in Latencies, r \in {"ok", "half", "fail"},
          c \in 1 .. MaxChange, a \in 1 .. MaxChange :
         /\ now + d <= MaxTime \/ d = 0
         /\ now' = now + d
         /\ r = "fail" => c = 1
         /\ r # "ok" => a = 1
         /\ quote' = IF r = "ok"
                     THEN [quote EXCEPT ![idx].change_24h = c,
                                        ![idx].price_change = a]
                     ELSE IF r = "half"
                     THEN [quote EXCEPT ![idx].change_24h = c]
                     ELSE quote
         /\ pc' = IF r = "ok" THEN "stamp" ELSE Handler
         /\ cycle' = [Step("change") EXCEPT !.change = IF r = "ok" THEN "ok" ELSE "fail"]
    /\ UNCHANGED << idx, passes, timerDue, limiter, remaining,
                    candlestick_image, disk, largeScreen, data, plotted,
                    started, ran, callLog, saved, error,
                    stamped >>

\* line 78: last_update = datetime.now()
Stamp ==
    /\ pc = "stamp"
    /\ quote' = [quote EXCEPT ![idx].last_update = << now >>]
    /\ pc' = "save_to_cache"
    /\ cycle' = [Step("stamp") EXCEPT !.fetched = << quote'[idx] >>]
    /\ stamped' = [stamped EXCEPT ![idx] = << quote'[idx] >>]
    /\ UNCHANGED << now, idx, passes, timerDue, limiter, remaining,
                    candlestick_image, disk, largeScreen, data, plotted,
                    started, ran, callLog, saved, error >>

\* save_to_cache, lines 160-169: the file it leaves.
\*   "ok"   the with block ran to its end
\*   "open" open() raised, the file was not touched
\*   "cut"  open() truncated the file, k fields were written, then the
\*          write raised
SaveToCache(q, f, how, k) ==
    IF how = "ok" THEN JsonDump(CacheData(q))
    ELSE IF how = "cut" THEN JsonDumpCut(CacheData(q), k)
    ELSE f

\* a save whose failure is ignored
AfterSaveM(how) == "fetch_candlestick_data"

\* lines 79-87: save_to_cache is inside the try block, an exception it
\* raises reaches the handler of line 85; line 81 follows a save that
\* returned
AfterSave(how) == IF how = "ok" THEN "fetch_candlestick_data" ELSE Handler

\* line 79
Save ==
    /\ pc = "save_to_cache"
    /\ \E how \in {"ok", "open", "cut"}, k \in 0 .. MaxCut :
         /\ how # "cut" => k = 0
         /\ disk' = [disk EXCEPT ![idx] = SaveToCache(quote[idx], @, how, k)]
         /\ pc' = AfterSave(how)
         /\ cycle' = [Step("save") EXCEPT !.save = how]
         /\ saved' = [saved EXCEPT ![idx] =
                         IF how = "ok" THEN << quote[idx] >>
                         ELSE IF how = "cut" THEN << >> ELSE @]
    /\ UNCHANGED << now, idx, passes, timerDue, limiter, remaining, quote,
                    candlestick_image, largeScreen, data, plotted,
                    started, ran, callLog, error,
                    stamped >>

\* a failed candle step that clears the image
FetchCandlestickDataM(img, ok, id) == IF ok THEN << id >> ELSE << >>

\* fetch_candlestick_data and plot_candlestick_chart, lines 89-158: the
\* image held afterwards.  Every exception of the kline request, of the
\* parsing and of the plotting is caught (lines 106, 157) before line 155
\* assigns the new image.
FetchCandlestickData(img, ok, id) == IF ok THEN << id >> ELSE img

\* line 81
Candles ==
    /\ pc = "fetch_candlestick_data"
    /\ \E d \in Latencies, ok \in BOOLEAN :
         /\ now + d <= MaxTime \/ d = 0
         /\ now' = now + d
         /\ candlestick_image' =
              [candlestick_image EXCEPT ![idx] = FetchCandlestickData(@, ok, passes)]
         /\ cycle' = [Step("candles") EXCEPT !.candle = IF ok THEN "ok" ELSE "fail"]
    /\ pc' = "display"
    /\ UNCHANGED << idx, passes, timerDue, limiter, remaining, quote, disk,
                    largeScreen, data, plotted,
                    started, ran, callLog, saved, error,
                    stamped >>

\* lines 84 and 87: the fallback
Load ==
    /\ pc = "load_from_cache"
    /\ LET r == LoadFromCache(quote[idx], disk[idx])
       IN  /\ quote' = [quote EXCEPT ![idx] = r.q]
           /\ cycle' = [Step("load") EXCEPT !.load = r.out,
                                            !.beforeLoad = quote[idx]]
           /\ pc' = IF Raises(r.out) THEN Dead ELSE "display"
           /\ error' = IF Raises(r.out) THEN r.out ELSE error
    /\ UNCHANGED << now, idx, passes, timerDue, limiter, remaining,
                    candlestick_image, disk, largeScreen, data, plotted,
                    started, ran, callLog, saved,
                    stamped >>

\* update_ticker_display, lines 340-415: line 414 calls strftime on
\* last_update when the screen is at least 1920x1080
DisplayRaises(q, large) == large /\ q.last_update = << >>

\* line 336
Display ==
    /\ pc = "display"
    /\ IF DisplayRaises(quote[idx], largeScreen)
       THEN /\ pc' = Dead
            /\ error' = "AttributeError"
            /\ idx' = idx
       ELSE /\ pc' = "loop"
            /\ error' = error
            /\ idx' = idx + 1
    /\ cycle' = Step("display")
    /\ UNCHANGED << now, passes, timerDue, limiter, remaining, quote,
                    candlestick_image, disk, largeScreen, data, plotted,
                    started, ran, callLog, saved,
                    stamped >>

Next ==
    \/ Dispatch
    \/ LimitsWrapper
    \/ Sleep
    \/ CallUpdate
    \/ ScheduleNext
    \/ PriceRequest
    \/ ChangeRequest
    \/ Stamp
    \/ Save
    \/ Candles
    \/ Load
    \/ Display

Spec == Init /\ [][Next]_vars

\* ------------------------------------------------- the candle labels
MaxBars == 3
MaxBar == 2
MaxPlots == 2

\* lines 98-103: a bar is [timestamp, open, high, low, close]
Bars == { << 0, l, h, l, h >> : h \in 0 .. MaxBar, l \in 0 .. MaxBar }

RECURSIVE SeriesOf(_)
SeriesOf(n) ==
    IF n = 0 THEN { << >> }
    ELSE SeriesOf(n - 1) \cup
         { Append(s, b) : s \in { t \in SeriesOf(n - 1) : Len(t) = n - 1 }, b \in Bars }

Series == SeriesOf(MaxBars)

\* line 128: val[2] of every bar (position 3, counting from 1)
HighValues(d) == [i \in 1 .. Len(d) |-> d[i][3]]

\* line 129: val[3] of every bar
LowValues(d) == [i \in 1 .. Len(d) |-> d[i][4]]

\* max() of a non-empty list: a later item replaces the one held only
\* when it is greater
RECURSIVE MaxFrom(_, _, _)
MaxFrom(s, i, best) ==
    IF i > Len(s) THEN best
    ELSE MaxFrom(s, i + 1, IF s[i] > best THEN s[i] ELSE best)

Max(s) == MaxFrom(s, 2, s[1])

\* min() of a non-empty list: a later item replaces the one held only
\* when it is smaller
RECURSIVE MinFrom(_, _, _)
MinFrom(s, i, best) ==
    IF i > Len(s) THEN best
    ELSE MinFrom(s, i + 1, IF s[i] < best THEN s[i] ELSE best)

Min(s) == MinFrom(s, 2, s[1])

\* list.index: the position, counted from 0, of the first item equal to v
RECURSIVE IndexFrom(_, _, _)
IndexFrom(s, v, i) ==
    IF s[i] = v THEN i - 1 ELSE IndexFrom(s, v, i + 1)

\* a search that reports the last item equal to v
IndexM(s, v) ==
    (CHOOSE i \in 1 .. Len(s) :
        s[i] = v /\ \A j \in (i + 1) .. Len(s) : s[j] # v) - 1

Index(s, v) == IndexFrom(s, v, 1)

\* lines 128-133: the two labels of the chart
Labels(d) ==
    LET high_values == HighValues(d)
        low_values == LowValues(d)
        highest_high == Max(high_values)
        lowest_low == Min(low_values)
    IN  [idx_highest |-> Index(high_values, highest_high),
         highest_high |-> highest_high,
         idx_lowest |-> Index(low_values, lowest_low),
         lowest_low |-> lowest_low]

\* the application is not running while the chart is plotted alone
InitCandle ==
    /\ data \in Series
    /\ plotted = << >>
    /\ now = 0
    /\ pc = "start"
    /\ idx = 1
    /\ passes = 0
    /\ timerDue = << >>
    /\ limiter = [l \in Ledgers |-> [last_reset |-> 0, num_calls |-> 0]]
    /\ remaining = 0
    /\ quote = [i \in Tickers |-> InitQuote]
    /\ candlestick_image = [i \in Tickers |-> << >>]
    /\ disk = [i \in Tickers |-> NoFile]
    /\ largeScreen = FALSE
    /\ cycle = NewCycle(InitQuote, << >>, NoFile)
    /\ ran = {}
    /\ callLog = << >>
    /\ saved = [i \in Tickers |-> << >>]
    /\ stamped = [i \in Tickers |-> << >>]
    /\ error = ""
    /\ started = << >>

\* plot_candlestick_chart(data), lines 109-158: max() of an empty list
\* raises ValueError at line 130, caught at line 157 with nothing drawn
PlotCandlestickChart ==
    /\ Len(plotted) < MaxPlots
    /\ plotted' = IF data = << >> THEN plotted ELSE Append(plotted, Labels(data))
    /\ UNCHANGED << data, now, pc, idx, passes, timerDue, limiter, remaining,
                    quote, candlestick_image, disk, largeScreen, cycle, ran,
                    callLog, saved, stamped, error, started >>

NextCandle ==
    \/ PlotCandlestickChart

SpecCandle == InitCandle /\ [][NextCandle]_vars

\* ===================================================== properties
\* update() has returned to line 336 for ticker idx
Returned == pc = "display"

\* a pass has ended: by line 338 or by an exception
PassOver == pc \in {"idle", "crashed", "stalled"}

\* the cycle failed at one of the two quote requests
FetchFailed == cycle.price = "fail" \/ cycle.change = "fail"

AllKeys == { Keys[i] : i \in 1 .. Len(Keys) }
Descriptors == { APIs[i] : i \in 1 .. Len(APIs) }

\* the file holds a complete record: every key, a timestamp in ISO form and
\* the name of a configured descriptor
ValidRecord(f) ==
    /\ f.exists /\ f.closed
    /\ DOMAIN f.obj = AllKeys
    /\ f.obj["last_update"].t = "str" /\ f.obj["last_update"].s = "iso"
    /\ \E a \in Descriptors : a.name = f.obj["api"].s

\* the Quote q holds exactly what the record of file f says
SameAsRecord(q, f) ==
    /\ q.price = f.obj["price"].n
    /\ q.price_change = f.obj["price_change"].n
    /\ q.change_24h = f.obj["change_24h"].n
    /\ q.last_update = << f.obj["last_update"].n >>
    /\ q.current_api \in Descriptors
    /\ q.current_api.name = f.obj["api"].s

\* C1: when a cycle failed at the price request or at the 24h request and
\* the cache file of the symbol holds a valid record, the Quote held when
\* update() returns equals that record in all five fields.
C1_FallbackEqualsCache ==
    (Returned /\ FetchFailed /\ ValidRecord(disk[idx]))
        => SameAsRecord(quote[idx], disk[idx])

\* C1 witness: the price request succeeded, the 24h request failed, and the
\* fallback replaced the price that line 69 had already assigned
C1_Witness ==
    /\ Returned /\ cycle.price = "ok" /\ cycle.change = "fail"
    /\ ValidRecord(disk[idx]) /\ cycle.load = "adopted"
    /\ quote[idx].price # cycle.beforeLoad.price

\* C2: when a cycle failed at the price request or at the 24h request and no
\* cache file exists, the Quote held when update() returns is the Quote held
\* before the cycle.
C2_RetainsOnMiss ==
    (Returned /\ FetchFailed /\ ~ disk[idx].exists)
        => /\ quote[idx].price = cycle.pre.price
           /\ quote[idx].price_change = cycle.pre.price_change
           /\ quote[idx].change_24h = cycle.pre.change_24h
           /\ quote[idx].last_update = cycle.pre.last_update

\* C3: every pass that has ended has scheduled the next pass.
C3_NextPassScheduled == PassOver => timerDue # << >>

\* C4: in every pass that has ended, update() was called for every ticker.
C4_AllCyclesRun == PassOver => ran = Tickers

\* calls that passed the limiter of update since its period began
InPeriod == { i \in DOMAIN callLog : callLog[i] >= limiter["update"].last_reset }

C6_RoundTrip ==
    /\ \A i \in Tickers : saved[i] # << >> =>
          /\ LoadFromCache(InitQuote, disk[i]) = [q |-> saved[i][1], out |-> "adopted"]
          /\ LoadFromCache(quote[i], disk[i]) = [q |-> saved[i][1], out |-> "adopted"]
          /\ saved[i][1].current_api \in Descriptors
    /\ (Returned /\ cycle.load = "adopted" /\ saved[idx] # << >>)
          => quote[idx] = saved[idx][1]
    /\ pc = "fetch_candlestick_data" => saved[idx] = << quote[idx] >>

\* C6 witness: a failed cycle has loaded the record that an earlier,
\* successful cycle of this run saved
C6_Witness ==
    /\ Returned /\ FetchFailed /\ cycle.load = "adopted"
    /\ saved[idx] # << >> /\ quote[idx] = saved[idx][1]
    /\ quote[idx].last_update # << 0 - AfterDelay >>

\* C7: when both quote requests succeeded and the candle step failed,
\* update() returns with the fetched Quote in memory and in the file, the
\* fallback was not run and the image is the one held before the cycle.
C7_CandleFailureSwallowed ==
    (Returned /\ cycle.candle = "fail") =>
        /\ cycle.price = "ok" /\ cycle.change = "ok" /\ cycle.save = "ok"
        /\ quote[idx] = cycle.fetched[1]
        /\ ValidRecord(disk[idx]) /\ SameAsRecord(quote[idx], disk[idx])
        /\ cycle.load = "none"
        /\ candlestick_image[idx] = cycle.preImage
        /\ error = ""

\* C7 witness: the candle step failed while an image of an earlier cycle
\* was held
C7_Witness ==
    /\ Returned /\ cycle.candle = "fail"
    /\ cycle.preImage # << >>
    /\ quote[idx] # cycle.pre

\* load_from_cache is the last step that ran
LoadJustRan ==
    /\ cycle.load # "none"
    /\ cycle.steps # << >> /\ cycle.steps[Len(cycle.steps)] = "load"

\* the file exists and holds no valid record: not decodable, or lacking a
\* key the load requires, or holding a timestamp that is not ISO text
Invalid(f) ==
    /\ f.exists
    /\ \/ ~ f.closed
       \/ \E k \in {"price", "change_24h", "last_update", "api"} : k \notin DOMAIN f.obj
       \/ /\ "last_update" \in DOMAIN f.obj
          /\ ~ (f.obj["last_update"].t = "str" /\ f.obj["last_update"].s = "iso")

\* C8: on a file that exists and holds no valid record load_from_cache
\* returns without raising and leaves the Quote as it was.
C8_CorruptAsAbsent ==
    (LoadJustRan /\ Invalid(disk[idx]))
        => /\ cycle.load = "corrupt"
           /\ quote[idx] = cycle.beforeLoad

\* code that ran after the limiter let the call through
InBody ==
    pc \in {"price_request", "change_request", "stamp", "save_to_cache",
            "fetch_candlestick_data", "load_from_cache", "display"}

\* C9: an update() call that finds the budget used up is not dropped and
\* raises nothing to its caller: it sleeps, the one retry after the sleep is
\* let through, and the body runs once for the call.
C9_Backpressure ==
    /\ pc = "update_sleep" =>
          /\ cycle.runs = 0
          /\ remaining > 0
          /\ Admitted(Limits(limiter["update"], SleepAndRetry(now, remaining)))
    /\ InBody => cycle.runs = 1
    /\ (PassOver /\ ran # {}) => cycle.runs = 1
    /\ error # "RateLimitException"

\* C9 witness: a call that was held back has run its body and returned
C9_Witness == Returned /\ cycle.slept /\ cycle.runs = 1

\* C10: after a save that was interrupted while writing, the next load of
\* the file adopts a complete record, the one held before or the new one.
C10_AllOrNothing ==
    (LoadJustRan /\ cycle.save = "cut" /\ ValidRecord(cycle.preDisk))
        => /\ cycle.load = "adopted"
           /\ \/ SameAsRecord(quote[idx], cycle.preDisk)
              \/ quote[idx] = cycle.fetched[1]

\* the timestamp of the record that file f holds
RecordStamp(f) == f.obj["last_update"].n

\* C11: for every ticker the timestamps that line 78 sets never go back
\* from one successful fetch to the next, and when update() returns from a
\* cycle that adopted the cache record, last_update is the timestamp of that
\* record.
C11_Timestamps ==
    [][ /\ \A i \in Tickers :
             (stamped[i] # << >> /\ stamped'[i] # stamped[i])
                 => /\ stamped'[i][1].last_update[1] >= stamped[i][1].last_update[1]
                    /\ quote'[i].last_update = stamped'[i][1].last_update
        /\ (pc' = "display" /\ cycle'.load = "adopted")
             => quote'[idx'].last_update = << RecordStamp(disk'[idx']) >>
      ]_vars

\* C11 witness: a fallback at a later time than the record's timestamp,
\* for a ticker that a successful fetch of this run had stamped
C11_Witness ==
    /\ Returned /\ cycle.load = "adopted"
    /\ stamped[idx] # << >>
    /\ quote[idx].last_update[1] < now

\* the cycle record belongs to ticker idx: update() is running, has just
\* returned, or was left by an exception
CycleOpen == InBody \/ pc \in {"crashed", "stalled"}

\* C12: the file of a ticker is written only in a cycle whose two quote
\* requests succeeded and read only in a cycle whose fetch failed; a failed
\* fetch and a failed candle step leave it as it was; and when update()
\* returns, the file, if present, holds the Quote of the most recent
\* successful fetch of the ticker.
C12_Lifecycle ==
    CycleOpen =>
        /\ disk[idx] # cycle.preDisk => (cycle.price = "ok" /\ cycle.change = "ok")
        /\ cycle.load # "none" => FetchFailed
        /\ FetchFailed => disk[idx] = cycle.preDisk
        /\ cycle.candle = "fail" => disk[idx] = JsonDump(CacheData(cycle.fetched[1]))
        /\ (Returned /\ stamped[idx] # << >> /\ disk[idx].exists)
              => /\ ValidRecord(disk[idx])
                 /\ SameAsRecord(stamped[idx][1], disk[idx])

\* the steps that ran in the cycle so far
StepsRun == { cycle.steps[i] : i \in DOMAIN cycle.steps }

\* C13: in a cycle that failed at the price request or at the 24h request
\* the candle step is never started and the image of the ticker stays the
\* one held before the cycle, whether the fallback adopted a record, found
\* none, or raised.
C13_NoCandlesOnFailure ==
    (CycleOpen /\ FetchFailed) =>
        /\ cycle.candle = "none"
        /\ "candles" \notin StepsRun
        /\ candlestick_image[idx] = cycle.preImage

\* C13 witness: a cycle failed while an image of an earlier cycle was held,
\* and update() has returned
C13_Witness ==
    /\ Returned /\ FetchFailed
    /\ cycle.load # "none"
    /\ cycle.preImage # << >>
    /\ candlestick_image[idx] = cycle.preImage

\* C14: for every non-empty series of bars each plot reports the greatest
\* high with the smallest index holding it and the least low with the
\* smallest index holding it, and every plot of the same bars reports the
\* same two pairs.
C14_Extremes ==
    \A k \in DOMAIN plotted :
        LET p == plotted[k]
            n == Len(data)
        IN  /\ data # << >>
            /\ p.idx_highest \in 0 .. (n - 1)
            /\ data[p.idx_highest + 1][3] = p.highest_high
            /\ \A i \in 1 .. n : data[i][3] <= p.highest_high
            /\ \A i \in 1 .. p.idx_highest : data[i][3] < p.highest_high
            /\ p.idx_lowest \in 0 .. (n - 1)
            /\ data[p.idx_lowest + 1][4] = p.lowest_low
            /\ \A i \in 1 .. n : data[i][4] >= p.lowest_low
            /\ \A i \in 1 .. p.idx_lowest : data[i][4] > p.lowest_low
            /\ p = plotted[1]

\* C14 witness: the greatest high and the least low both occur twice, not
\* at the first bar, and the bars were plotted twice
C14_Witness ==
    /\ Len(plotted) = 2
    /\ Len(data) = 3
    /\ data[1][3] < data[2][3] /\ data[2][3] = data[3][3]
    /\ data[1][4] > data[2][4] /\ data[2][4] = data[3][4]
    /\ plotted[2].idx_highest = 1 /\ plotted[2].idx_lowest = 1

\* C15: a pass dispatched by the timer starts exactly the 10 s of line 338
\* after the start of the pass before it, whatever time that pass took, and
\* a timer is pending only while no pass is running.
C15_FixedSpacing ==
    [][ /\ (pc = "idle" /\ pc' = "prices_limits")
             => now' - started[1] = AfterDelay
        /\ timerDue' # << >> => pc' = "idle"
      ]_vars

\* C15 as amended: the timer is set when the loop of a pass is over, for
\* 10 s after that moment; the next pass starts when it is due, so the
\* distance of two starts is the 10 s plus the time the earlier pass took;
\* a timer is pending only while no pass is running.
C15_FromCompletion ==
    [][ /\ (pc = "loop" /\ pc' = "idle")
             => timerDue' = << now + AfterDelay >>
        /\ (pc = "idle" /\ pc' = "prices_limits")
             => /\ now' = timerDue[1]
                /\ now' - started[1] = AfterDelay + (now - started[1])
                /\ now' - started[1] >= AfterDelay
        /\ timerDue' # << >> => pc' = "idle"
      ]_vars

\* C15 witness: the first pass, started at time 0, took time; the second
\* pass has just been dispatched, more than 10 s after time 0
C15_Witness ==
    /\ passes = 2
    /\ pc = "prices_limits"
    /\ started = << now >>
    /\ now > AfterDelay

\* the file holds a record that is complete and well formed except that its
\* api name is the name of no configured descriptor
UnknownApi(f) ==
    /\ f.exists /\ f.closed
    /\ DOMAIN f.obj = AllKeys
    /\ f.obj["last_update"].t = "str" /\ f.obj["last_update"].s = "iso"
    /\ \A a \in Descriptors : a.name # f.obj["api"].s

\* C16: on a record whose only fault is an api name that matches no
\* configured descriptor load_from_cache ends with a lookup failure of its
\* own, which is neither the corrupt-file outcome nor the file-absent
\* outcome and is handled as neither: it leaves the method as an exception.
C16_LookupFailure ==
    (LoadJustRan /\ UnknownApi(disk[idx])) =>
        /\ cycle.load = "StopIteration"
        /\ cycle.load \notin {"corrupt", "absent"}
        /\ error = "StopIteration"
        /\ pc \in {"crashed", "stalled"}

\* C16 witness: the fallback ran on such a record
C16_Witness ==
    /\ LoadJustRan
    /\ UnknownApi(disk[idx])
    /\ disk[idx].obj["api"].s = "Kraken"
    /\ error = "StopIteration"

\* the position of step a in the cycle, 0 when it did not run
Pos(a) ==
    IF a \in StepsRun
    THEN CHOOSE i \in DOMAIN cycle.steps :
            cycle.steps[i] = a /\ \A j \in 1 .. (i - 1) : cycle.steps[j] # a
    ELSE 0

\* step b ran only after step a
Precedes(a, b) == b \in StepsRun => (a \in StepsRun /\ Pos(a) < Pos(b))

\* C17: in every cycle the limiter is passed before any request, the price
\* request comes before the 24h request, the Quote is complete (both
\* requests and the timestamp) before the cache is written with it, the
\* cache is written before the candle step, the candle step runs only when
\* both requests and the write succeeded, and the display step comes last,
\* after update() has returned.
C17_StepOrder ==
    /\ \A i, j \in DOMAIN cycle.steps : cycle.steps[i] = cycle.steps[j] => i = j
    /\ \A r \in {"price", "change", "candles"} : Precedes("admitted", r)
    /\ Precedes("price", "change")
    /\ Precedes("change", "stamp") /\ Precedes("stamp", "save")
    /\ "save" \in StepsRun =>
          /\ cycle.price = "ok" /\ cycle.change = "ok"
          /\ cycle.fetched # << >>
          /\ (CycleOpen /\ "load" \notin StepsRun) => quote[idx] = cycle.fetched[1]
          /\ (CycleOpen /\ cycle.save = "ok")
                => disk[idx] = JsonDump(CacheData(cycle.fetched[1]))
    /\ Precedes("save", "candles")
    /\ "candles" \in StepsRun =>
          cycle.price = "ok" /\ cycle.change = "ok" /\ cycle.save = "ok"
    /\ "display" \in StepsRun =>
          /\ Pos("display") = Len(cycle.steps)
          /\ Precedes("candles", "display") \/ Precedes("load", "display")
          /\ ~ InBody
    /\ pc = "display" => ("candles" \in StepsRun \/ "load" \in StepsRun)

\* C17 witness: a cycle in which every step ran
C17_Witness ==
    cycle.steps = << "admitted", "price", "change", "stamp", "save",
                     "candles", "display" >>

\* the Quote q holds, in every field, what load_from_cache reads from the
\* record of file f (0 for a price_change the record lacks, line 176)
TakenFrom(q, f) ==
    /\ Decodable(f)
    /\ {"price", "change_24h", "last_update", "api"} \subseteq DOMAIN f.obj
    /\ q.price = f.obj["price"].n
    /\ q.price_change = CachedPriceChange(f.obj)
    /\ q.change_24h = f.obj["change_24h"].n
    /\ q.last_update = << f.obj["last_update"].n >>
    /\ q.current_api \in Descriptors
    /\ q.current_api.name = f.obj["api"].s

\* C18: after any call of load_from_cache either every field of the Quote
\* holds the value of the cache record or every field is as it was before
\* the call, whatever the file holds.
C18_AtomicAdoption ==
    LoadJustRan =>
        \/ quote[idx] = cycle.beforeLoad
        \/ TakenFrom(quote[idx], disk[idx])

\* C19: the fallback runs only in a cycle in which a quote request failed;
\* in a cycle in which both requests succeeded the Quote held when update()
\* is over is the one just fetched and stamped, also when the save failed.
C19_FreshQuoteKept ==
    CycleOpen =>
        /\ cycle.load # "none" => FetchFailed
        /\ (cycle.price = "ok" /\ cycle.change = "ok"
              /\ (Returned \/ pc \in {"crashed", "stalled"}))
             => /\ cycle.fetched # << >>
                /\ quote[idx] = cycle.fetched[1]

====
